---- MODULE Spec2Model ----
(***************************************************************************)
(* The breach dashboard of src/cyber_dash.py: the cleaned table df, the    *)
(* static figures built from it, and the three Dash callbacks that turn a  *)
(* click on a chart into a detail text or a per-year chart.                *)
(*                                                                         *)
(* Strings are TLA+ strings; a Python value that can be of several types   *)
(* (a click key, a callback's return value) is a record with a tag.        *)
(***************************************************************************)
EXTENDS Integers, Sequences, FiniteSets, TLC

VARIABLES
    df,                        \* the table of cleaned records (lines 17-23)
    quicksort,                 \* the order this process's sort gives a frame
    fig1,                      \* figure of breaches-over-time-chart (line 28)
    fig2,                      \* figure of the data-classes chart (line 33)
    fig3,                      \* figure of top-breaches-chart (lines 36-44)
    breach_details,            \* children of Div breach-details
    top_breaches_year_chart,   \* figure of Graph top-breaches-year-chart
    yearly_breach_details,     \* children of Div yearly-breach-details
    called,                    \* callbacks whose page-load call has run
    response                   \* the last callback call and how it ended

vars == <<df, quicksort, fig1, fig2, fig3, breach_details,
          top_breaches_year_chart, yearly_breach_details, called, response>>

outputs == <<breach_details, top_breaches_year_chart, yearly_breach_details>>

(***************************************************************************)
(* Bounds of the model and constants of the program.                       *)
(***************************************************************************)
\* Short stores hold at most MaxRecords records of RawPool.
MaxRecords == 2
\* LongStore holds LongLen records, more than either head() keeps.
LongLen == 16
\* head(15) of the overall ranking, line 36.
TopOverallN == 15
\* head(5) of the per-year ranking, line 138.
TopYearN == 5
\* head(20) of the data-class counts, line 32.
TopClassesN == 20

(***************************************************************************)
(* Python and pandas helpers.                                              *)
(***************************************************************************)
Digits == <<"0", "1", "2", "3", "4", "5", "6", "7", "8", "9">>

IsDigit(c) == \E i \in 1..10 : Digits[i] = c

DigitValue(c) == (CHOOSE i \in 1..10 : Digits[i] = c) - 1

RECURSIVE ParseDigits(_, _)
\* The value of the decimal digits s, continuing from the value acc.
ParseDigits(s, acc) ==
    IF Len(s) = 0 THEN acc
    ELSE ParseDigits(Tail(s), 10 * acc + DigitValue(Head(s)))

RECURSIVE AllDigits(_)
AllDigits(s) == Len(s) = 0 \/ (IsDigit(Head(s)) /\ AllDigits(Tail(s)))

\* A Python call either returns a value or raises.
Return(v) == [raised |-> "none", value |-> v]
Raise(e) == [raised |-> e, value |-> [kind |-> "nothing"]]

\* A click key as the JSON payload carries it: a number or a string.
IntKey(n) == [type |-> "int", int |-> n, str |-> ""]
StrKey(s) == [type |-> "str", int |-> 0, str |-> s]

\* int(key): a number is itself and a string of decimal digits is parsed;
\* a string that is empty or holds another character raises ValueError
\* (signs, blanks and underscores, which int() also reads, are in no key of
\* the model).
PyInt(key) ==
    IF key.type = "int" THEN Return(key.int)
    ELSE IF Len(key.str) > 0 /\ AllDigits(key.str)
         THEN Return(ParseDigits(key.str, 0))
         ELSE Raise("ValueError")

\* The key as an f-string formats it.
PyFormat(key) == IF key.type = "int" THEN ToString(key.int) ELSE key.str

\* n with two digits, as a date prints its month and day.
Pad2(n) == IF n < 10 THEN "0" \o ToString(n) ELSE ToString(n)

Pad3(n) == IF n < 10 THEN "00" \o ToString(n)
           ELSE IF n < 100 THEN "0" \o ToString(n) ELSE ToString(n)

RECURSIVE Thousands(_)
\* f"{n:,}": the digits of n in groups of three.
Thousands(n) ==
    IF n < 1000 THEN ToString(n)
    ELSE Thousands(n \div 1000) \o "," \o Pad3(n % 1000)

\* Timestamps. NaT is pandas' missing timestamp.
NaT == [y |-> 0, m |-> 0, d |-> 0]
NaN == -1

IsLeap(y) == (y % 4 = 0 /\ y % 100 # 0) \/ y % 400 = 0

DaysIn(y, m) ==
    IF m = 2 THEN (IF IsLeap(y) THEN 29 ELSE 28)
    ELSE IF m \in {4, 6, 9, 11} THEN 30 ELSE 31

\* pd.to_datetime(raw, errors='coerce'): a raw date that is no calendar
\* date becomes NaT.
ToDatetime(raw) ==
    IF /\ raw.y >= 1 /\ raw.m \in 1..12 /\ raw.d >= 1
       /\ raw.d <= DaysIn(raw.y, raw.m)
    THEN [y |-> raw.y, m |-> raw.m, d |-> raw.d]
    ELSE NaT

\* DtYear reading the year field of NaT as a number.
DtYear_OfField(ts) == ts.y

\* .dt.year: NaN for NaT.
DtYear(ts) == IF ts = NaT THEN NaN ELSE ts.y

\* Timestamp.date() as the f-string prints it: the date of a timestamp as
\* YYYY-MM-DD; NaT.date() is NaT, which prints as NaT.
TimestampDate(ts) ==
    IF ts = NaT THEN Return("NaT")
    ELSE Return(ToString(ts.y) \o "-" \o Pad2(ts.m) \o "-" \o Pad2(ts.d))

RECURSIVE TagEnd(_, _)
\* The number of characters of s up to and including the first ">" that
\* closes a tag whose text so far holds n characters; 0 when a "<" or the
\* end of s comes first.
TagEnd(s, n) ==
    IF Len(s) = 0 \/ Head(s) = "<" THEN 0
    ELSE IF Head(s) = ">" /\ n >= 1 THEN 1
    ELSE LET rest == TagEnd(Tail(s), n + 1)
         IN  IF rest = 0 THEN 0 ELSE rest + 1

RECURSIVE StripTags(_)
\* str.replace('<[^<]+?>', '', regex=True): every leftmost shortest match
\* of "<", one or more characters other than "<", ">" is removed.
StripTags(s) ==
    IF Len(s) = 0 THEN ""
    ELSE IF Head(s) = "<" /\ TagEnd(Tail(s), 0) > 0
         THEN StripTags(SubSeq(s, TagEnd(Tail(s), 0) + 2, Len(s)))
         ELSE Head(s) \o StripTags(Tail(s))

\* Python's None: a Div without children, a Graph without a figure.
PyNone == [kind |-> "None"]

\* A Python str as a component's children.
PyStr(s) == [kind |-> "str", str |-> s]

(***************************************************************************)
(* The raw records the API returns. The stores the model loads are the     *)
(* short stores (different records of RawPool in any order), the store of  *)
(* the spec's scenario, and one long store.                                *)
(***************************************************************************)
RawRecord(title, y, m, d, pwn, classes, verified, desc) ==
    [Title |-> title, BreachDate |-> [y |-> y, m |-> m, d |-> d],
     AddedDate |-> [y |-> y + 1, m |-> m, d |-> d], PwnCount |-> pwn,
     DataClasses |-> classes, IsVerified |-> verified, Description |-> desc]

RawPool ==
    << RawRecord("A", 2019, 3, 1, 100, <<"Email addresses", "Passwords">>,
                 TRUE, "In March <em>2019</em>, A was breached."),
       RawRecord("B", 2019, 6, 2, 500, <<"Email addresses">>,
                 TRUE, "B exposed <a href=\"x\">500</a> accounts."),
       RawRecord("C", 2020, 1, 5, 50, <<"Passwords", "Email addresses">>,
                 FALSE, "C"),
       RawRecord("A", 2020, 2, 9, 1500, <<"IP addresses">>,
                 TRUE, "A again, 1 < 2."),
       RawRecord("C", 2019, 13, 1, 100, <<"Passwords">>,
                 FALSE, "C, date unknown"),
       RawRecord("B", 2019, 11, 30, 100, <<"Usernames", "Passwords">>,
                 FALSE, "B <b>again</b>") >>

ShortStores ==
    { [i \in DOMAIN s |-> RawPool[s[i]]] :
        s \in { t \in UNION { [1..n -> DOMAIN RawPool] : n \in 1..MaxRecords } :
                  \A i, j \in DOMAIN t : t[i] = t[j] => i = j } }

\* Years {2019, 2019, 2020} with 100, 500, 50 accounts.
ScenarioStore == <<RawPool[1], RawPool[2], RawPool[3]>>

\* Record i of the long store: every fourth is of 2020, the others of 2019;
\* the counts grow with i, and records 2 and 3, 9 and 10, 16 and 17 tie.
LongRecord(i) ==
    RawRecord(<<"A", "B", "C">>[(i % 3) + 1],
              IF i % 4 = 0 THEN 2020 ELSE 2019, (i % 12) + 1, i,
              10 * (IF i % 7 = 3 THEN i - 1 ELSE i),
              <<"Email addresses", "Class " \o ToString(i),
                "Kind " \o ToString(i % 6)>>, i % 2 = 0, "d")

LongStore == [i \in 1..LongLen |-> LongRecord(i)]

Stores == ShortStores \cup {ScenarioStore, LongStore}

(***************************************************************************)
(* Section 2 of the program: the cleaned table.                            *)
(***************************************************************************)
\* One row of df after lines 17-23. Rows are labelled 1..Len(df) in the
\* order of the raw records.
CleanRow(raw) ==
    [Title |-> raw.Title,
     BreachDate |-> ToDatetime(raw.BreachDate),
     AddedDate |-> ToDatetime(raw.AddedDate),
     PwnCount |-> raw.PwnCount,
     DataClasses |-> raw.DataClasses,
     IsVerified |-> raw.IsVerified,
     AccountsAffected |-> raw.PwnCount,
     Description |-> StripTags(raw.Description),
     Year |-> DtYear(ToDatetime(raw.BreachDate)),
     BreachTitle |-> raw.Title]

Load(rawRecords) == [i \in DOMAIN rawRecords |-> CleanRow(rawRecords[i])]

(***************************************************************************)
(* pandas operations on df. A frame taken from df is the sequence of the   *)
(* labels of its rows.                                                     *)
(***************************************************************************)
RECURSIVE Ascending(_)
\* The labels S by growing label: the order a boolean mask keeps.
Ascending(S) ==
    IF S = {} THEN <<>>
    ELSE LET i == CHOOSE a \in S : \A b \in S : a <= b
         IN  <<i>> \o Ascending(S \ {i})

\* df[df['BreachTitle'] == title]
WhereBreachTitle(table, title) ==
    Ascending({ i \in DOMAIN table : table[i].BreachTitle = title })

\* WhereYear without its mask: every row, whatever its year.
WhereYear_NoMask(table, year) == Ascending(DOMAIN table)

\* df[df['Year'] == year]: NaN equals no year.
WhereYear(table, year) ==
    Ascending({ i \in DOMAIN table :
                  table[i].Year # NaN /\ table[i].Year = year })

\* ILoc0 taking the first row of the table when the frame is empty.
ILoc0_OfTable(table, frame) ==
    IF Len(frame) = 0 THEN Return(table[1]) ELSE Return(table[frame[1]])

\* ILoc0 taking the last row of the frame.
ILoc0_LastRow(table, frame) ==
    IF Len(frame) = 0 THEN Raise("IndexError")
    ELSE Return(table[frame[Len(frame)]])

\* frame.iloc[0]: the first row, IndexError on an empty frame.
ILoc0(table, frame) ==
    IF Len(frame) = 0 THEN Raise("IndexError") ELSE Return(table[frame[1]])

\* frame.head(n)
HeadN(frame, n) == SubSeq(frame, 1, IF Len(frame) < n THEN Len(frame) ELSE n)

RECURSIVE DescendingOrders(_, _)
\* Every order of the labels S in which AccountsAffected never grows.
DescendingOrders(table, S) ==
    IF S = {} THEN {<<>>}
    ELSE LET top == { i \in S : \A j \in S :
                        table[i].AccountsAffected >= table[j].AccountsAffected }
         IN  UNION { { <<i>> \o o : o \in DescendingOrders(table, S \ {i}) } :
                     i \in top }

\* The orders a sort of the frame by falling AccountsAffected can give:
\* kind is left at its default 'quicksort', which is not stable, so rows
\* with equal counts can come in any order.
SortOrders(table, frame) ==
    DescendingOrders(table, { frame[i] : i \in DOMAIN frame })

\* SortValues with a tie order picked anew by every call.
SortValues_TiesPerCall(table, frame) == SortOrders(table, frame)

\* frame.sort_values(by='AccountsAffected', ascending=False): one of the
\* orders of SortOrders. Which one is not specified, but the sort is a
\* function of the frame: the same frame sorted again comes out the same.
SortValues(table, frame) == {quicksort[frame]}

\* The labels of all rows of the table.
AllRows(table) == [i \in DOMAIN table |-> i]

RECURSIVE YearCounts(_, _)
\* groupby('Year').size().reset_index(name='Count') over the years S: one
\* row per year, by growing year; rows without a year are in no group.
YearCounts(table, S) ==
    IF S = {} THEN <<>>
    ELSE LET y == CHOOSE a \in S : \A b \in S : a <= b
         IN  <<[Year |-> y, Count |-> Len(WhereYear(table, y))]>>
             \o YearCounts(table, S \ {y})

\* breaches_by_year with groupby(dropna=False): the rows without a year
\* are a group too.
breaches_by_year_KeepNaN(table) ==
    YearCounts(table, { table[i].Year : i \in DOMAIN table })

\* Line 27.
breaches_by_year(table) ==
    YearCounts(table, { table[i].Year : i \in DOMAIN table } \ {NaN})

RECURSIVE all_classes(_)
\* Line 31: sum(df['DataClasses'], []), the lists of all rows end to end.
all_classes(table) ==
    IF table = <<>> THEN <<>>
    ELSE Head(table).DataClasses \o all_classes(Tail(table))

\* The count the items give the element c: 0 when they have no item of it.
CountIn(items, c) ==
    IF \A k \in DOMAIN items : items[k].DataClass # c THEN 0
    ELSE items[CHOOSE k \in DOMAIN items : items[k].DataClass = c].Count

\* The items of a stretch of elements followed by the items of the next
\* stretch: the counts of an element add up, and an element met in the
\* second stretch only comes after the elements of the first.
CountBoth(a, b) ==
    [ k \in DOMAIN a |->
        [a[k] EXCEPT !.Count = @ + CountIn(b, a[k].DataClass)] ]
    \o SelectSeq(b, LAMBDA item : CountIn(a, item.DataClass) = 0)

RECURSIVE CountFromTo(_, _, _)
CountFromTo(elements, lo, hi) ==
    IF lo > hi THEN <<>>
    ELSE IF lo = hi THEN <<[DataClass |-> elements[lo], Count |-> 1]>>
    ELSE LET mid == (lo + hi) \div 2
         IN  CountBoth(CountFromTo(elements, lo, mid),
                       CountFromTo(elements, mid + 1, hi))

\* Counter over set(elements): every element counted once.
Counter_OfSet(elements) ==
    LET items == CountFromTo(elements, 1, Len(elements))
    IN  [ k \in DOMAIN items |-> [items[k] EXCEPT !.Count = 1] ]

\* Counter(elements).items(): one item per distinct element with the number
\* of its occurrences, in the order the elements are first met (a dict
\* keeps its keys in the order they were inserted).
Counter(elements) == CountFromTo(elements, 1, Len(elements))

\* The sorted items with one more item put in after the items of a larger
\* or the same count.
PutIn(sorted, item, after) ==
    SubSeq(sorted, 1, after) \o <<item>>
    \o SubSeq(sorted, after + 1, Len(sorted))

RECURSIVE MostCommon_TiesLastFirst(_)
\* most_common() with the ties turned round.
MostCommon_TiesLastFirst(items) ==
    IF items = <<>> THEN <<>>
    ELSE LET n == Len(items)
             sorted == MostCommon_TiesLastFirst(SubSeq(items, 1, n - 1))
         IN  PutIn(sorted, items[n],
                   Cardinality({ k \in DOMAIN sorted :
                                   sorted[k].Count > items[n].Count }))

RECURSIVE MostCommon(_)
\* Counter.most_common(): sorted(items, key=count, reverse=True). The sort
\* of Python is stable, so items of equal count keep the order of items:
\* an item comes after the earlier items of a larger or the same count.
MostCommon(items) ==
    IF items = <<>> THEN <<>>
    ELSE LET n == Len(items)
             sorted == MostCommon(SubSeq(items, 1, n - 1))
         IN  PutIn(sorted, items[n],
                   Cardinality({ k \in DOMAIN sorted :
                                   sorted[k].Count >= items[n].Count }))

\* Line 32.
class_counts(table) ==
    HeadN(MostCommon(Counter(all_classes(table))), TopClassesN)

\* A bar figure of plotly express: its title and the frame it draws.
Bar(title, frame) == [kind |-> "bar", title |-> title, frame |-> frame]

\* Line 36: the rankings sort_values and head(15) can give.
top_breaches(table) ==
    { HeadN(o, TopOverallN) : o \in SortValues(table, AllRows(table)) }

(***************************************************************************)
(* Click payloads. clickData is None until a bar is clicked; a click gives *)
(* {'points': [...]}, whose points the model cuts to the one key a         *)
(* callback reads (y of a title chart, x of the year chart).               *)
(***************************************************************************)
NoClickData == [given |-> FALSE, points |-> <<>>]

Click(points) == [given |-> TRUE, points |-> points]

\* "Z" is the title of no record.
ClickTitles == {"A", "B", "C", "Z"}

ClickYears == {IntKey(2019), IntKey(2020), StrKey("2019"), StrKey("abc")}

TitleClicks == {Click(<<>>)} \cup { Click(<<[y |-> t]>>) : t \in ClickTitles }

YearClicks == {Click(<<>>)} \cup { Click(<<[x |-> k]>>) : k \in ClickYears }

\* Truthy asking for a point as well.
Truthy_WithPoint(clickData) == clickData.given /\ Len(clickData.points) > 0

\* Truthy without the test: the callback's guard left out.
Truthy_Always(clickData) == TRUE

\* "if clickData:": None is falsy, a dict with a key is truthy.
Truthy(clickData) == clickData.given

\* clickData['points'][0]
Points0(clickData) ==
    IF Len(clickData.points) = 0 THEN Raise("IndexError")
    ELSE Return(clickData.points[1])

(***************************************************************************)
(* Section 5 of the program: the callbacks. Each gives the set of results  *)
(* a call can have: what it returns, or the exception it raises.           *)
(***************************************************************************)
\* The f-string of lines 123-128 and 158-163.
DetailsText(breach) ==
    LET date == TimestampDate(breach.BreachDate)
    IN  IF date.raised # "none" THEN Raise(date.raised)
        ELSE Return(PyStr(
                 "Breach: " \o breach.BreachTitle
                 \o "\nBreach Date: " \o date.value
                 \o "\nAccounts Affected: " \o Thousands(breach.AccountsAffected)
                 \o "\n\nDescription:\n" \o breach.Description))

\* Lines 121-128 and 156-163: the row of the clicked title, as text.
BreachOfClick(clickData) ==
    LET point == Points0(clickData)
    IN  IF point.raised # "none" THEN Raise(point.raised)
        ELSE LET title_clicked == point.value.y
                 breach == ILoc0(df, WhereBreachTitle(df, title_clicked))
             IN  IF breach.raised # "none" THEN Raise(breach.raised)
                 ELSE DetailsText(breach.value)

\* Line 129.
BreachDetailsPrompt == PyStr("Click on a bar above to see breach details.")

\* Line 148.
YearChartPrompt == Bar("Click a year to view top breaches.", <<>>)

\* Line 164.
YearlyDetailsPrompt == PyStr("Click on a breach to see details.")

display_breach_details(clickData) ==
    IF Truthy(clickData)
    THEN {BreachOfClick(clickData)}
    ELSE {Return(BreachDetailsPrompt)}

update_top_breaches_for_year(clickData) ==
    IF Truthy(clickData)
    THEN LET point == Points0(clickData)
         IN  IF point.raised # "none" THEN {Raise(point.raised)}
             ELSE LET year_clicked == point.value.x
                      year == PyInt(year_clicked)
                  IN  IF year.raised # "none" THEN {Raise(year.raised)}
                      ELSE { Return(Bar("Top 5 Breaches in "
                                          \o PyFormat(year_clicked),
                                        HeadN(o, TopYearN))) :
                             o \in SortValues(df, WhereYear(df, year.value)) }
    ELSE {Return(YearChartPrompt)}

\* display_yearly_breach_details looking the title up among the rows the
\* per-year chart shows.
display_yearly_breach_details_InChart(clickData) ==
    IF Truthy(clickData)
    THEN LET point == Points0(clickData)
         IN  IF point.raised # "none" THEN {Raise(point.raised)}
             ELSE LET shown == IF top_breaches_year_chart = PyNone THEN <<>>
                               ELSE top_breaches_year_chart.frame
                      rows == { shown[k] : k \in DOMAIN shown }
                      breach == ILoc0(df, Ascending(
                                    { i \in rows :
                                        df[i].BreachTitle = point.value.y }))
                  IN  IF breach.raised # "none" THEN {Raise(breach.raised)}
                      ELSE {DetailsText(breach.value)}
    ELSE {Return(YearlyDetailsPrompt)}

display_yearly_breach_details(clickData) ==
    IF Truthy(clickData)
    THEN {BreachOfClick(clickData)}
    ELSE {Return(YearlyDetailsPrompt)}

(***************************************************************************)
(* The @app.callback bindings: which property a callback reads, which it   *)
(* writes, and what a call does to the page.                               *)
(***************************************************************************)
Callbacks == {"display_breach_details", "update_top_breaches_for_year",
              "display_yearly_breach_details"}

Handler(cb, clickData) ==
    CASE cb = "display_breach_details" -> display_breach_details(clickData)
      [] cb = "update_top_breaches_for_year" ->
             update_top_breaches_for_year(clickData)
      [] cb = "display_yearly_breach_details" ->
             display_yearly_breach_details(clickData)

\* OutputOf with the Output of display_breach_details bound to the Div of
\* the year tab.
OutputOf_YearTab(cb) ==
    CASE cb = "display_breach_details" -> "yearly-breach-details"
      [] cb = "update_top_breaches_for_year" -> "top-breaches-year-chart"
      [] cb = "display_yearly_breach_details" -> "yearly-breach-details"

\* The component of Output(...) in the decorator.
OutputOf(cb) ==
    CASE cb = "display_breach_details" -> "breach-details"
      [] cb = "update_top_breaches_for_year" -> "top-breaches-year-chart"
      [] cb = "display_yearly_breach_details" -> "yearly-breach-details"

\* The component whose property the Output is written to.
SetProp(id, v) ==
    /\ breach_details' = IF id = "breach-details" THEN v ELSE breach_details
    /\ top_breaches_year_chart' =
           IF id = "top-breaches-year-chart" THEN v ELSE top_breaches_year_chart
    /\ yearly_breach_details' =
           IF id = "yearly-breach-details" THEN v ELSE yearly_breach_details

\* DfAfter with the detail callbacks writing the cleaned-up text back into
\* the row they show.
DfAfter_WritesRow(table, cb, clickData) ==
    IF /\ cb # "update_top_breaches_for_year"
       /\ clickData.given /\ Len(clickData.points) = 1
    THEN [ i \in DOMAIN table |->
             IF table[i].BreachTitle = clickData.points[1].y
             THEN [table[i] EXCEPT !.Description = ""]
             ELSE table[i] ]
    ELSE table

\* df after a call: the callbacks read df through masks, sort_values and
\* iloc, which build new frames (inplace is left False), and none assigns
\* to df or to a row of it.
DfAfter(table, cb, clickData) == table

\* One call of a callback, run to its end: the value it returns becomes the
\* Output's property; when it raises, the page keeps what it shows. No
\* callback assigns to df or to a figure of section 3. response.again tells
\* that the call got the very event of the call before it.
Callback(cb, clickData) ==
    \E r \in Handler(cb, clickData) :
        /\ response' = [callback |-> cb, clickData |-> clickData,
                        raised |-> r.raised,
                        again |-> /\ response.callback = cb
                                  /\ response.clickData = clickData]
        /\ IF r.raised = "none" THEN SetProp(OutputOf(cb), r.value)
           ELSE UNCHANGED outputs
        /\ df' = DfAfter(df, cb, clickData)
        /\ UNCHANGED <<quicksort, fig1, fig2, fig3>>

(***************************************************************************)
(* The state machine.                                                      *)
(***************************************************************************)
\* The years a click on the year chart can ask for.
ClickedYears ==
    { PyInt(k).value : k \in { c \in ClickYears : PyInt(c).raised = "none" } }

\* The frames the program sorts: the whole table (line 36) and the rows of
\* a clicked year (line 138).
SortedFrames(table) ==
    {AllRows(table)} \cup { WhereYear(table, y) : y \in ClickedYears }

\* The functions the sort can be on these frames.
Quicksorts(table) ==
    { f \in [SortedFrames(table) ->
               UNION { SortOrders(table, fr) : fr \in SortedFrames(table) }] :
          \A fr \in SortedFrames(table) : f[fr] \in SortOrders(table, fr) }

Init ==
    \E rawRecords \in Stores :
        /\ df = Load(rawRecords)
        /\ quicksort \in Quicksorts(df)
        /\ fig1 = Bar("Breaches Per Year", breaches_by_year(df))
        /\ fig2 = Bar("Most Common Compromised Data Types", class_counts(df))
        /\ \E top \in top_breaches(df) :
               fig3 = Bar("Top 15 Breaches by Accounts Affected", top)
        /\ breach_details = PyNone
        /\ top_breaches_year_chart = PyNone
        /\ yearly_breach_details = PyNone
        /\ called = {}
        /\ response = [callback |-> "none", clickData |-> NoClickData,
                       raised |-> "none", again |-> FALSE]

\* The page loads: every callback is called once with clickData = None.
PageLoad ==
    \E cb \in Callbacks \ called :
        /\ Callback(cb, NoClickData)
        /\ called' = called \cup {cb}

\* A click on a bar of top-breaches-chart.
ClickTopBreachesChart ==
    /\ called = Callbacks
    /\ \E clickData \in TitleClicks :
           Callback("display_breach_details", clickData)
    /\ UNCHANGED called

\* A click on a bar of breaches-over-time-chart.
ClickBreachesOverTimeChart ==
    /\ called = Callbacks
    /\ \E clickData \in YearClicks :
           Callback("update_top_breaches_for_year", clickData)
    /\ UNCHANGED called

\* A click on a bar of top-breaches-year-chart.
ClickTopBreachesYearChart ==
    /\ called = Callbacks
    /\ \E clickData \in TitleClicks :
           Callback("display_yearly_breach_details", clickData)
    /\ UNCHANGED called

Next ==
    \/ PageLoad
    \/ ClickTopBreachesChart
    \/ ClickBreachesOverTimeChart
    \/ ClickTopBreachesYearChart

Spec == Init /\ [][Next]_vars

(***************************************************************************)
(* The states of the interactive nodes: a node is Empty while it shows     *)
(* nothing or its placeholder, and Populated otherwise.                    *)
(***************************************************************************)
BreachDetailsPopulated ==
    breach_details # PyNone /\ breach_details # BreachDetailsPrompt

YearChartPopulated ==
    top_breaches_year_chart # PyNone
    /\ top_breaches_year_chart # YearChartPrompt

YearlyDetailsPopulated ==
    yearly_breach_details # PyNone
    /\ yearly_breach_details # YearlyDetailsPrompt

\* The last call was a click (not a page-load call) of callback cb.
ClickOf(cb) == response.callback = cb /\ response.clickData.given

\* The last call was a click that carried one point.
HasPoint == response.clickData.given /\ Len(response.clickData.points) = 1

\* The per-year chart shows the ranking of year y.
ChartOfYear(y) ==
    /\ top_breaches_year_chart.kind = "bar"
    /\ top_breaches_year_chart.title = "Top 5 Breaches in " \o ToString(y)

Years == {2019, 2020}

(***************************************************************************)
(* C1: a call changes only the Output of its callback: a title click on    *)
(* the overall chart leaves the yearly chart, the per-year chart and the   *)
(* year tab's detail panel as they were, and a click in the year branch    *)
(* leaves the overall chart and the overall detail panel as they were      *)
(* (a year click also leaves the year tab's detail panel, a title click in *)
(* the year tab also leaves the per-year chart).                           *)
(***************************************************************************)
C1_OnlyDependentsChange ==
    [][ /\ response'.callback = "display_breach_details" =>
               UNCHANGED <<fig1, fig3, top_breaches_year_chart,
                           yearly_breach_details>>
        /\ response'.callback = "update_top_breaches_for_year" =>
               UNCHANGED <<fig1, fig3, breach_details, yearly_breach_details>>
        /\ response'.callback = "display_yearly_breach_details" =>
               UNCHANGED <<fig1, fig3, breach_details,
                           top_breaches_year_chart>> ]_vars

\* A title click on the overall chart has populated its panel while the
\* year branch was populated.
C1_Witness ==
    /\ ClickOf("display_breach_details") /\ response.raised = "none"
    /\ BreachDetailsPopulated /\ YearChartPopulated /\ YearlyDetailsPopulated

\* The last call was a click, on either title chart, on a title of no record.
UnknownTitleClick ==
    /\ response.callback \in {"display_breach_details",
                              "display_yearly_breach_details"}
    /\ HasPoint
    /\ \A i \in DOMAIN df :
           df[i].BreachTitle # response.clickData.points[1].y

(***************************************************************************)
(* C2 (as claimed): a title click whose title matches no record makes the  *)
(* detail callback return a rendering (the fallback prompt) instead of     *)
(* raising.                                                                *)
(***************************************************************************)
C2_UnknownTitleReturnsFallback ==
    UnknownTitleClick => response.raised = "none"

(***************************************************************************)
(* C3: once a node is Populated, no call makes it Empty again.             *)
(***************************************************************************)
C3_NoPopulatedToEmpty ==
    [][ /\ BreachDetailsPopulated => BreachDetailsPopulated'
        /\ YearChartPopulated => YearChartPopulated'
        /\ YearlyDetailsPopulated => YearlyDetailsPopulated' ]_vars

\* Every node is Populated and the last click, on a populated node, failed.
C3_Witness ==
    /\ BreachDetailsPopulated /\ YearChartPopulated /\ YearlyDetailsPopulated
    /\ response.clickData.given /\ response.raised # "none"

(***************************************************************************)
(* C4 (as claimed): after a click on year y and a click on a title shown   *)
(* in the per-year chart of y that populates the year tab's panel, the     *)
(* panel shows a record of year y with that title.                         *)
(***************************************************************************)
C4_PanelShowsRecordOfYear ==
    \A y \in Years :
        ( /\ ClickOf("display_yearly_breach_details") /\ HasPoint
          /\ response.raised = "none"
          /\ ChartOfYear(y)
          /\ \E k \in DOMAIN top_breaches_year_chart.frame :
                 df[top_breaches_year_chart.frame[k]].BreachTitle
                     = response.clickData.points[1].y )
        => \E i \in DOMAIN df :
               /\ df[i].Year = y
               /\ df[i].BreachTitle = response.clickData.points[1].y
               /\ Return(yearly_breach_details) = DetailsText(df[i])

\* The labels of the rows of year y.
RowsOfYear(y) == { i \in DOMAIN df : df[i].Year = y }

\* The last call was a year click with one point, and it returned.
YearClickReturned ==
    ClickOf("update_top_breaches_for_year") /\ HasPoint
    /\ response.raised = "none"

(***************************************************************************)
(* C5: after a click on year y the per-year chart holds rows of year y     *)
(* only, each once, min(5, number of rows of year y) of them, by           *)
(* AccountsAffected descending, and no row of year y left out has more     *)
(* accounts than a row shown; in the scenario store the chart of 2019 is   *)
(* the row with 500 accounts, then the row with 100.                       *)
(***************************************************************************)
C5_ChartIsTopOfYear ==
    \A y \in Years :
        (YearClickReturned /\ ChartOfYear(y)) =>
            LET frame == top_breaches_year_chart.frame
                shown == { frame[k] : k \in DOMAIN frame }
            IN  /\ shown \subseteq RowsOfYear(y)
                /\ Cardinality(shown) = Len(frame)
                /\ Len(frame) = IF Cardinality(RowsOfYear(y)) < TopYearN
                                THEN Cardinality(RowsOfYear(y)) ELSE TopYearN
                /\ \A k \in 1..(Len(frame) - 1) :
                       df[frame[k]].AccountsAffected
                           >= df[frame[k + 1]].AccountsAffected
                /\ \A i \in shown : \A j \in RowsOfYear(y) \ shown :
                       df[i].AccountsAffected >= df[j].AccountsAffected
                /\ (df = Load(ScenarioStore) /\ y = 2019) => frame = <<2, 1>>

\* A year click on a store with more than 5 rows of that year has returned.
C5_Witness ==
    \E y \in Years :
        /\ YearClickReturned /\ ChartOfYear(y)
        /\ Cardinality(RowsOfYear(y)) > TopYearN

(***************************************************************************)
(* C6 (as claimed): no call of a callback raises: every click payload      *)
(* gets a rendering.                                                       *)
(***************************************************************************)
C6_NoCallRaises == response.raised = "none"

\* A year key that is a string and not the decimal form of a number.
MalformedYearKey(key) ==
    key.type = "str" /\ (Len(key.str) = 0 \/ ~AllDigits(key.str))

\* The last call was a click whose resolution fails.
FailingClick ==
    /\ response.clickData.given
    /\ \/ Len(response.clickData.points) = 0
       \/ UnknownTitleClick
       \/ /\ response.callback = "update_top_breaches_for_year"
          /\ HasPoint
          /\ MalformedYearKey(response.clickData.points[1].x)
       \/ response.raised # "none"

(***************************************************************************)
(* C7: a click whose resolution fails (no point, a title of no record, a   *)
(* year key that is no integer, or any click whose callback raises)        *)
(* changes the rendering of no node, the failing node's own included.      *)
(***************************************************************************)
C7_FailedClickChangesNothing ==
    [][ FailingClick' => UNCHANGED <<outputs, fig1, fig3>> ]_vars

\* A click on a title of no record has failed on a populated panel.
C7_Witness ==
    /\ UnknownTitleClick /\ response.callback = "display_breach_details"
    /\ response.raised = "IndexError"
    /\ BreachDetailsPopulated

\* Rows of the frame with equal counts come by growing label.
TiesInTableOrder(frame) ==
    \A i, j \in DOMAIN frame :
        (i < j /\ df[frame[i]].AccountsAffected = df[frame[j]].AccountsAffected)
            => frame[i] < frame[j]

(***************************************************************************)
(* C8 (as claimed): in the overall ranking and in the per-year ranking,    *)
(* rows with the same AccountsAffected come in the order of the table.     *)
(***************************************************************************)
C8_TiesKeepInsertionOrder ==
    /\ TiesInTableOrder(fig3.frame)
    /\ YearChartPopulated => TiesInTableOrder(top_breaches_year_chart.frame)

(***************************************************************************)
(* C10: until the first click no node is Populated, and a node whose       *)
(* callback has had its page-load call (clickData = None) shows its        *)
(* placeholder.                                                            *)
(***************************************************************************)
C10_EmptyBeforeFirstClick ==
    ~response.clickData.given =>
        /\ ~BreachDetailsPopulated
        /\ ~YearChartPopulated
        /\ ~YearlyDetailsPopulated
        /\ "display_breach_details" \in called =>
               breach_details = BreachDetailsPrompt
        /\ "update_top_breaches_for_year" \in called =>
               top_breaches_year_chart = YearChartPrompt
        /\ "display_yearly_breach_details" \in called =>
               yearly_breach_details = YearlyDetailsPrompt

\* The page has loaded and no bar has been clicked.
C10_Witness == called = Callbacks /\ ~response.clickData.given

(***************************************************************************)
(* C11: no call of a callback changes df: after any sequence of clicks the *)
(* table holds the records, in the order and with the field values, it     *)
(* held right after the load.                                              *)
(***************************************************************************)
C11_StoreUnchanged == [][df' = df]_vars

\* Every node has been populated by a click and a later click on a title
\* of the table has returned.
C11_Witness ==
    /\ BreachDetailsPopulated /\ YearChartPopulated /\ YearlyDetailsPopulated
    /\ ClickOf("display_yearly_breach_details") /\ HasPoint
    /\ response.raised = "none" /\ Len(df) > 1

\* The panel a detail callback writes.
PanelOf(cb) ==
    IF cb = "display_breach_details" THEN breach_details
    ELSE yearly_breach_details

DetailCallbacks == {"display_breach_details", "display_yearly_breach_details"}

\* The rows of df that carry the title of the last click.
RowsOfClickedTitle ==
    { i \in DOMAIN df : df[i].BreachTitle = response.clickData.points[1].y }

(***************************************************************************)
(* C12: a click, on either title chart, on a title that one or several     *)
(* rows of df carry makes the panel show the first of these rows in the    *)
(* order of the table, whatever the table and the title.                   *)
(***************************************************************************)
C12_FirstMatchShown ==
    \A cb \in DetailCallbacks :
        (ClickOf(cb) /\ HasPoint /\ RowsOfClickedTitle # {}) =>
            LET first == CHOOSE i \in RowsOfClickedTitle :
                             \A j \in RowsOfClickedTitle : i <= j
            IN  /\ response.raised = "none"
                /\ Return(PanelOf(cb)) = DetailsText(df[first])

\* A click on a title that two rows with different texts carry has returned.
C12_Witness ==
    \E cb \in DetailCallbacks :
        /\ ClickOf(cb) /\ HasPoint /\ response.raised = "none"
        /\ \E i, j \in RowsOfClickedTitle :
               i < j /\ DetailsText(df[i]) # DetailsText(df[j])

\* The entries of the DataClasses lists of df: <<row, place in the list>>.
ClassEntries ==
    UNION { { <<i, k>> : k \in DOMAIN df[i].DataClasses } : i \in DOMAIN df }

ClassOf(e) == df[e[1]].DataClasses[e[2]]

\* The data classes that occur in df.
DistinctClasses == { ClassOf(e) : e \in ClassEntries }

\* The number of entries of df that carry the data class c.
Occurrences(c) ==
    LET InRow[i \in DOMAIN df] ==
            Cardinality({ k \in DOMAIN df[i].DataClasses :
                            df[i].DataClasses[k] = c })
        UpTo[i \in 0..Len(df)] ==
            IF i = 0 THEN 0 ELSE UpTo[i - 1] + InRow[i]
    IN  UpTo[Len(df)]

\* The data classes the chart shows.
ShownClasses == { fig2.frame[n].DataClass : n \in DOMAIN fig2.frame }

RECURSIVE SumCounts(_)
\* The sum of the Count column of a frame of class counts.
SumCounts(frame) ==
    IF frame = <<>> THEN 0 ELSE Head(frame).Count + SumCounts(Tail(frame))

(***************************************************************************)
(* C13 (as claimed): the counts of the data-classes chart sum to the       *)
(* number of DataClasses entries of all rows, for every table, tables with *)
(* more than 20 distinct data classes included.                            *)
(***************************************************************************)
C13_CountsSumToTotal ==
    SumCounts(fig2.frame) = Cardinality(ClassEntries)

(***************************************************************************)
(* C13 (amended): the counts of the data-classes chart sum to the number   *)
(* of DataClasses entries whose class is among the at most 20 classes the  *)
(* chart shows: to the number of all entries when the table has at most 20 *)
(* distinct data classes, to less when it has more.                        *)
(***************************************************************************)
C13_CountsSumToShownEntries ==
    /\ SumCounts(fig2.frame) =
           Cardinality({ e \in ClassEntries : ClassOf(e) \in ShownClasses })
    /\ Cardinality(DistinctClasses) <= TopClassesN =>
           SumCounts(fig2.frame) = Cardinality(ClassEntries)
    /\ Cardinality(DistinctClasses) > TopClassesN =>
           SumCounts(fig2.frame) < Cardinality(ClassEntries)

\* The chart was built from a table with more than 20 distinct data classes.
C13_Witness ==
    /\ Cardinality(DistinctClasses) > TopClassesN
    /\ Len(fig2.frame) = TopClassesN

\* The entry of df where the data class c is met first, scanning the rows
\* in table order and each list from its start.
FirstSeen(c) ==
    LET Places(i) == { k \in DOMAIN df[i].DataClasses :
                         df[i].DataClasses[k] = c }
        rows == { i \in DOMAIN df : Places(i) # {} }
        row == CHOOSE i \in rows : \A j \in rows : i <= j
    IN  <<row, CHOOSE k \in Places(row) : \A l \in Places(row) : k <= l>>

\* The class c comes before the class d in the ranking: it occurs more
\* often, or as often and is met first.
RanksBefore(c, d) ==
    LET nc == Occurrences(c)
        nd == Occurrences(d)
        ec == FirstSeen(c)
        ed == FirstSeen(d)
    IN  \/ nc > nd
        \/ /\ nc = nd
           /\ \/ ec[1] < ed[1]
              \/ ec[1] = ed[1] /\ ec[2] < ed[2]

(***************************************************************************)
(* C14: the data-classes chart (k = 20) shows min(k, number of distinct    *)
(* classes) classes, each once and with the number of its occurrences, by  *)
(* count descending, classes of equal count in the order in which they are *)
(* first met scanning the rows in table order; a class left out ranks      *)
(* after every class shown.                                                *)
(***************************************************************************)
C14_TopClassesRanked ==
    LET frame == fig2.frame
        distinct == DistinctClasses
        shown == ShownClasses
    IN  /\ Len(frame) = IF Cardinality(distinct) < TopClassesN
                        THEN Cardinality(distinct) ELSE TopClassesN
        /\ Cardinality(shown) = Len(frame)
        /\ shown \subseteq distinct
        /\ \A n \in DOMAIN frame :
               frame[n].Count = Occurrences(frame[n].DataClass)
        /\ \A n \in 1..(Len(frame) - 1) :
               RanksBefore(frame[n].DataClass, frame[n + 1].DataClass)
        /\ \A c \in distinct \ shown :
               RanksBefore(frame[Len(frame)].DataClass, c)

\* The chart was cut to 20 classes, holds classes of equal count, and a
\* class left out has the count of a class shown.
C14_Witness ==
    /\ Cardinality(DistinctClasses) > TopClassesN
    /\ \E n \in 1..(Len(fig2.frame) - 1) :
           fig2.frame[n].Count = fig2.frame[n + 1].Count
    /\ \E c \in DistinctClasses \ ShownClasses :
           Occurrences(c) = fig2.frame[Len(fig2.frame)].Count

(***************************************************************************)
(* C15: the yearly counts hold one entry per year that a row of df has,    *)
(* whose count is the number of rows of that year; no entry for the rows   *)
(* without a year; the counts sum to the number of rows with a year; the   *)
(* scenario store (years 2019, 2019, 2020) gives 2019: 2, 2020: 1.         *)
(***************************************************************************)
C15_YearlyCounts ==
    LET frame == fig1.frame
        dated == { i \in DOMAIN df : df[i].Year # NaN }
    IN  /\ \A n \in DOMAIN frame :
               /\ frame[n].Year # NaN
               /\ frame[n].Count =
                      Cardinality({ i \in DOMAIN df : df[i].Year = frame[n].Year })
        /\ { frame[n].Year : n \in DOMAIN frame } = { df[i].Year : i \in dated }
        /\ Len(frame) = Cardinality({ df[i].Year : i \in dated })
        /\ SumCounts(frame) = Cardinality(dated)
        /\ df = Load(ScenarioStore) =>
               frame = <<[Year |-> 2019, Count |-> 2],
                         [Year |-> 2020, Count |-> 1]>>

\* The yearly counts of a table that has a row without a year and a row
\* with one.
C15_Witness ==
    /\ \E i \in DOMAIN df : df[i].Year = NaN
    /\ \E n \in DOMAIN fig1.frame : fig1.frame[n].Count = 1

(***************************************************************************)
(* C16: in every row of df, Year is missing exactly when BreachDate is     *)
(* missing (a date that cannot be parsed is loaded as missing), and        *)
(* otherwise Year is the calendar year of BreachDate.                      *)
(***************************************************************************)
C16_YearOfBreachDate ==
    \A i \in DOMAIN df :
        /\ df[i].Year = NaN <=> df[i].BreachDate = NaT
        /\ df[i].BreachDate # NaT => df[i].Year = df[i].BreachDate.y

\* A table with a row whose date could not be parsed next to a dated row.
C16_Witness ==
    \E i, j \in DOMAIN df :
        /\ df[i].BreachDate = NaT /\ df[i].Year = NaN
        /\ df[j].BreachDate # NaT /\ df[j].Year = 2020

C18_PanelIsOfChartYear ==
    \A y \in Years :
        (YearlyDetailsPopulated /\ ChartOfYear(y)) =>
            \E i \in DOMAIN df :
                /\ df[i].Year = y
                /\ Return(yearly_breach_details) = DetailsText(df[i])

(***************************************************************************)
(* C19: the two detail callbacks are the same function of the clicked      *)
(* title: for every click they return the same text or raise the same      *)
(* exception, whatever the per-year chart shows; so two panels that show   *)
(* records of one title show the same record.                              *)
(***************************************************************************)
C19_DetailPanelsAgree ==
    /\ \A clickData \in TitleClicks :
           display_yearly_breach_details(clickData)
               = display_breach_details(clickData)
    /\ \A i, j \in DOMAIN df :
           ( /\ df[i].BreachTitle = df[j].BreachTitle
             /\ Return(breach_details) = DetailsText(df[i])
             /\ Return(yearly_breach_details) = DetailsText(df[j]) )
           => yearly_breach_details = breach_details

\* Both panels show the record of a title that a record of the year of the
\* per-year chart carries too, and the record shown is of another year.
C19_Witness ==
    \E y \in Years : \E i, j \in DOMAIN df :
        /\ ChartOfYear(y)
        /\ df[i].BreachTitle = df[j].BreachTitle
        /\ df[i].Year # y /\ df[j].Year = y
        /\ Return(breach_details) = DetailsText(df[i])
        /\ yearly_breach_details = breach_details

====
